---- MODULE Spec2Model ----
(***************************************************************************)
(* Hangman with score and time tracking (h2-quiz.py).                      *)
(*                                                                         *)
(* Text is modelled as a sequence of one-character strings, so that the    *)
(* substring test of add_guess, the strip/lower normalisation of the input *)
(* and the line format of the save file are computed, not assumed.         *)
(* Elapsed wall-clock time is a float in the code; here it is a number of  *)
(* tenths of a second, truncated to whole seconds by update_time.          *)
(***************************************************************************)
EXTENDS Integers, Sequences, FiniteSets, TLC

VARIABLES state, pc, status, out, hints, saved, savedState, player,
          origin, save_files, names, word_files, cut_rows

vars == <<state, pc, status, out, hints, saved, savedState, player,
          origin, save_files, names, word_files, cut_rows>>

----------------------------------------------------------------------------
(* Program constants *)

MAX_SCORE == 100
INITIAL_TIME == 30
HINT_THRESHOLD == 3
PENALTY == 10

\* line 300: the lengths add_custom_words accepts
MIN_CUSTOM_LEN == 4
MAX_CUSTOM_LEN == 20

DIFFICULTY_PARAMS ==
    [easy |-> <<4, 5>>, medium |-> <<6, 7>>, hard |-> <<8, 20>>]

----------------------------------------------------------------------------
(* Bounds of the model *)

\* number of letters, absent from every word, on the wrong-letters keyboard
NumWrongKeys == 11
\* number of characters typed before the ending of a file name
MaxNameLen == 2
\* number of rows of custom_words.csv when word selection is examined
MaxRows == 2
\* the two non-trivial delays of a turn, in tenths of a second
MidDelay == 155
MaxDelay == 319
\* by how much the clock is set back during a turn, in tenths of a second
BackDelay == 5
\* the most characters that reach a file before a write to it fails
MaxPartial == 3
\* the most writes to custom_words.csv that fail partway in a session
MaxCutRows == 1

----------------------------------------------------------------------------
(* Characters and text *)

LowerCase == <<"a","b","c","d","e","f","g","h","i","j","k","l","m",
               "n","o","p","q","r","s","t","u","v","w","x","y","z">>
UpperCase == <<"A","B","C","D","E","F","G","H","I","J","K","L","M",
               "N","O","P","Q","R","S","T","U","V","W","X","Y","Z">>
DigitChars == <<"0","1","2","3","4","5","6","7","8","9">>
\* the characters of the alphabet of the model, which is ASCII, that
\* str.strip() and \s of re take for whitespace: the space, tab, line
\* feed, carriage return, form feed, and the control characters of codes 11
\* (vertical tab), 28, 29, 30 and 31, written here as they are
WhiteSpace ==
    {" ", "\t", "\n", "\r", "\f", "", "", "", "", ""}

\* the characters int() ignores around a number: the first six of them
IntSpace == {" ", "\t", "\n", "\r", "\f", ""}

Range(s) == {s[i] : i \in 1..Len(s)}

IndexOf(c, s) == CHOOSE i \in 1..Len(s) : s[i] = c

\* str.lower() on one character
lower_char(c) ==
    IF c \in Range(UpperCase) THEN LowerCase[IndexOf(c, UpperCase)] ELSE c

\* str.lower()
lower(s) == [i \in 1..Len(s) |-> lower_char(s[i])]

\* s without the characters of blanks at its two ends
strip_chars(s, blanks) ==
    LET keep == {i \in 1..Len(s) : s[i] \notin blanks}
    IN  IF keep = {} THEN <<>>
        ELSE LET lo == CHOOSE i \in keep : \A j \in keep : i <= j
                 hi == CHOOSE i \in keep : \A j \in keep : j <= i
             IN  SubSeq(s, lo, hi)

\* str.strip(): drop leading and trailing whitespace
strip(s) == strip_chars(s, WhiteSpace)

\* str.isalpha(): non-empty and every character a letter
isalpha(s) ==
    /\ Len(s) > 0
    /\ \A i \in 1..Len(s) : s[i] \in Range(LowerCase) \cup Range(UpperCase)

\* Python's "g in w" on strings: g occurs in w as a substring
IsSubstr(g, w) ==
    \E i \in 0..(Len(w) - Len(g)) : SubSeq(w, i + 1, i + Len(g)) = g

----------------------------------------------------------------------------
(* Game state *)

create_game_state(word, guessed_letters, score, time_left) ==
    [ word              |-> lower(word),
      guessed_letters   |-> guessed_letters,
      score             |-> score,
      time_left         |-> time_left,
      incorrect_guesses |-> 0,
      hint_used         |-> FALSE ]

fresh_state(word) == create_game_state(word, {}, MAX_SCORE, INITIAL_TIME)

\* int(elapsed): elapsed is given in tenths of a second, and int() drops the
\* fraction, towards zero
int_elapsed(tenths) ==
    IF tenths >= 0 THEN tenths \div 10 ELSE 0 - ((0 - tenths) \div 10)

update_time(st, tenths) ==
    [st EXCEPT !.time_left = @ - int_elapsed(tenths)]

time_available_mut(st) == st.time_left >= 0
\* the value update_time returns
time_available(st) == st.time_left > 0

add_guess(st, guess) ==
    [st EXCEPT !.guessed_letters = @ \cup {guess}]

\* the value add_guess returns
guess_correct(st, guess) == IsSubstr(guess, st.word)

----------------------------------------------------------------------------
(* One iteration of game_loop, piece by piece *)

SaveWord == <<"s","a","v","e">>

is_save_mut(guess) == FALSE
\* line 163: guess == "save"
is_save(guess) == guess = SaveWord

is_repeat_mut(st, guess) == FALSE
\* lines 180-181: a single letter that was already guessed
is_repeat(st, guess) ==
    /\ Len(guess) = 1
    /\ isalpha(guess)
    /\ guess \in st.guessed_letters

\* lines 185-195: the guess is recorded, then the counter and the score are
\* updated on the value add_guess returned
apply_guess(st, guess) ==
    LET s1 == add_guess(st, guess)
    IN  IF ~guess_correct(st, guess)
        THEN [s1 EXCEPT !.incorrect_guesses = @ - 1, !.score = @ - PENALTY]
        ELSE [s1 EXCEPT !.incorrect_guesses = @ + 1, !.score = @ - PENALTY]

\* the message printed by lines 185-195
guess_message(st, guess) ==
    IF ~guess_correct(st, guess) THEN "wrong" ELSE "invalid"

word_covered_mut(st) ==
    /\ \A i \in 1..Len(st.word) : <<st.word[i]>> \in st.guessed_letters
    /\ st.score > 0
\* line 197
word_covered(st) ==
    \A i \in 1..Len(st.word) : <<st.word[i]>> \in st.guessed_letters

score_exhausted_mut(st) == st.score < 0
\* line 202
score_exhausted(st) == st.score <= 0

hint_due_mut(st) == st.incorrect_guesses >= HINT_THRESHOLD
\* line 207
hint_due(st) ==
    st.incorrect_guesses >= HINT_THRESHOLD /\ ~st.hint_used

\* line 208, as the set random.choice draws from
missing(st) ==
    {st.word[i] : i \in {j \in 1..Len(st.word) :
                            <<st.word[j]>> \notin st.guessed_letters}}

----------------------------------------------------------------------------
(* Persistence: save_game_state and load_game_state on the text of a file *)

RECURSIVE IterationOrders(_)
\* the orders in which iterating over the set may yield its elements: the
\* order is the hash table's, which depends on the hash seed of the run, so
\* every order of the elements may be met
IterationOrders(S) ==
    IF S = {} THEN {<<>>}
    ELSE UNION { {<<x>> \o rest : rest \in IterationOrders(S \ {x})} :
                 x \in S }

RECURSIVE join(_, _)
\* sep.join(items)
join(sep, items) ==
    IF items = <<>> THEN <<>>
    ELSE IF Len(items) = 1 THEN items[1]
    ELSE items[1] \o sep \o join(sep, Tail(items))

RECURSIVE NatToStr(_)
NatToStr(n) ==
    IF n < 10 THEN <<DigitChars[n + 1]>>
    ELSE NatToStr(n \div 10) \o <<DigitChars[(n % 10) + 1]>>

\* str() of an integer, as the f-string formats it
IntToStr(n) == IF n < 0 THEN <<"-">> \o NatToStr(0 - n) ELSE NatToStr(n)

\* lines 99-101: the text save_game_state writes, for one iteration order
save_text(st, order) ==
    st.word \o <<" ", "\n">>
    \o join(<<",">>, order) \o <<"\n">>
    \o IntToStr(st.time_left) \o <<"\n">>

RECURSIVE universal_newlines(_)
\* reading in text mode: "\r\n" and a lone "\r" are read as "\n"
universal_newlines(text) ==
    IF text = <<>> THEN <<>>
    ELSE IF text[1] # "\r"
         THEN <<text[1]>> \o universal_newlines(Tail(text))
    ELSE IF Len(text) >= 2 /\ text[2] = "\n"
         THEN <<"\n">> \o universal_newlines(SubSeq(text, 3, Len(text)))
         ELSE <<"\n">> \o universal_newlines(Tail(text))

RECURSIVE split_lines(_)
\* the lines of a text whose newlines are all "\n", each without its newline
split_lines(text) ==
    IF text = <<>> THEN <<>>
    ELSE IF \E i \in 1..Len(text) : text[i] = "\n"
         THEN LET i == CHOOSE k \in 1..Len(text) :
                          /\ text[k] = "\n"
                          /\ \A j \in 1..(k - 1) : text[j] # "\n"
              IN  <<SubSeq(text, 1, i - 1)>>
                  \o split_lines(SubSeq(text, i + 1, Len(text)))
         ELSE <<text>>

\* iterating over a file opened in text mode: the lines, each without its
\* newline
file_lines(text) == split_lines(universal_newlines(text))

RECURSIVE split(_, _)
\* s.split(sep) for a one-character separator
split(s, sep) ==
    IF \E i \in 1..Len(s) : s[i] = sep
    THEN LET i == CHOOSE k \in 1..Len(s) :
                     /\ s[k] = sep
                     /\ \A j \in 1..(k - 1) : s[j] # sep
         IN  <<SubSeq(s, 1, i - 1)>> \o split(SubSeq(s, i + 1, Len(s)), sep)
    ELSE <<s>>

RECURSIVE DigitsValue(_)
DigitsValue(d) ==
    IF d = <<>> THEN 0
    ELSE 10 * DigitsValue(SubSeq(d, 1, Len(d) - 1))
         + (IndexOf(d[Len(d)], DigitChars) - 1)

\* int(s): optional sign, digits with single underscores between them,
\* the blanks of IntSpace around. The result is <<value>>, or <<>> for
\* ValueError.
parse_int(s) ==
    LET t    == strip_chars(s, IntSpace)
        sign == IF t # <<>> /\ t[1] \in {"+", "-"} THEN 1 ELSE 0
        body == SubSeq(t, sign + 1, Len(t))
        ok   == /\ body # <<>>
                /\ \A i \in 1..Len(body) :
                       body[i] \in Range(DigitChars) \cup {"_"}
                /\ body[1] # "_"
                /\ body[Len(body)] # "_"
                /\ \A i \in 1..(Len(body) - 1) :
                       ~(body[i] = "_" /\ body[i + 1] = "_")
        val  == DigitsValue(SelectSeq(body, LAMBDA c : c # "_"))
    IN  IF ~ok THEN <<>>
        ELSE IF sign = 1 /\ t[1] = "-" THEN <<0 - val>> ELSE <<val>>

\* lines 107-128: the state read back from a save file, given as <<text>>, or
\* <<>> when there is no such file. The result is <<state>>, or <<>> for the
\* None returned when opening the file or reading any of the four fields
\* raises.
load_game_state(file) ==
    IF file = <<>> THEN <<>>
    ELSE LET lines == [i \in 1..Len(file_lines(file[1])) |->
                          strip(file_lines(file[1])[i])]
         IN  IF Len(lines) < 4 THEN <<>>
             ELSE IF parse_int(lines[3]) = <<>> \/ parse_int(lines[4]) = <<>>
             THEN <<>>
             ELSE << create_game_state(
                        lines[1],
                        IF lines[2] # <<>> THEN Range(split(lines[2], ","))
                                           ELSE {},
                        parse_int(lines[3])[1],
                        parse_int(lines[4])[1]) >>

Extension == <<".","s","a","v","e">>

\* s.endswith(suffix)
endswith(s, suffix) ==
    /\ Len(s) >= Len(suffix)
    /\ SubSeq(s, Len(s) - Len(suffix) + 1, Len(s)) = suffix

\* line 89: re.sub(r'[^a-zA-Z0-9\s\.]', "_", filename)
sanitize(filename) ==
    [i \in 1..Len(filename) |->
        IF filename[i] \in Range(LowerCase) \cup Range(UpperCase)
                           \cup Range(DigitChars) \cup WhiteSpace \cup {"."}
        THEN filename[i] ELSE "_"]

\* lines 91-93 and 108-110
with_extension(filename) ==
    IF endswith(filename, Extension) THEN filename
    ELSE filename \o Extension

save_filename_mut(filename) == sanitize(filename) \o Extension
\* lines 88-93: the name save_game_state writes the file under
save_filename(filename) == with_extension(sanitize(filename))

\* lines 108-110: the name load_game_state opens
load_filename(filename) == with_extension(filename)

----------------------------------------------------------------------------
(* The words and the inputs of the model *)

Cat  == <<"c","a","t">>
Bat  == <<"b","a","t">>
Cats == <<"c","a","t","s">>

\* the words a round is started on directly
Words == {Cat, Bat, Cats}

\* the rows of custom_words.csv and of <difficulty>_words.csv in the
\* sessions in which rounds are played
CustomWordList == <<Bat, Cats>>
DifficultyWordList(d) == IF d = "easy" THEN <<Cats>> ELSE <<>>

\* a word file that is there: the first cells of its rows, which have one
\* cell each, and whether the last row lacks its newline (a file made by
\* hand may; the rows the program writes all end with one)
WordFile(rows, unterminated) ==
    <<[rows |-> rows, unterminated |-> unterminated]>>

\* n times the character c
Repeated(c, n) == [i \in 1..n |-> c]

\* what is typed at the prompt of add_custom_words by the player who adds
\* words: a new word, a word of the list in capitals with blanks around
\* it, a word with a digit, a word too short, a word too long, and "done";
\* the other players type a word that is in the list, and "done"
AddInputs(p) ==
    IF p = "adder"
    THEN { <<"c","a","s","t">>, <<" ","C","A","T","S"," ">>,
           <<"a","b","1","d">>, <<"b","a","r">>,
           Repeated("a", MAX_CUSTOM_LEN + 1), <<"d","o","n","e">> }
    ELSE { <<"c","a","t","s">>, <<" ","D","o","n","e","\t">> }

\* first cells of rows the word files may hold: between them, words of the
\* lengths at and next to the ends of the three ranges, a word in capitals,
\* a word with blanks around it, a cell with a digit in it, an empty cell
CustomRows ==
    { Repeated("a", n) : n \in {3, 5, 6, 8, 21} } \cup { <<"D","O","G","S">> }

DifficultyRows ==
    { Repeated("a", n) : n \in {4, 7, 20} }
    \cup { <<" ","c","a","t","s"," ">>, <<"a","b","1","d">>, <<>> }

\* a word file: missing, or up to n rows
Files(rows, n) ==
    { <<>> }
    \cup { WordFile(r, FALSE) : r \in UNION {[1..k -> rows] : k \in 0..n} }

\* custom_words.csv in the sessions that start at the menu: missing, or the
\* two rows with or without a newline after the last
MenuCustomFiles ==
    { <<>>, WordFile(CustomWordList, FALSE), WordFile(CustomWordList, TRUE) }

CustomFiles == Files(CustomRows, MaxRows)
DifficultyFiles == Files(DifficultyRows, 1)

Difficulties == {"easy", "medium", "hard"}

\* letters that occur in none of the words
WrongLetters == <<"d","e","f","g","h","i","j","k","l","m","n","o","p">>

\* what a player types at the guess prompt, before strip() and lower(): one
\* who types letters or the word; one who types a letter, the empty line, a
\* digit and two-letter strings; one who types wrong letters only, in the
\* order of the alphabet: a letter typed before, or the next one; one who
\* types two letters or "save"; one who types the word of the round
LetterInputs ==
    { <<"c">>, <<"a">>, <<"t">>, <<"s">>, <<"x">>, <<" ","C"," ">> }

SloppyInputs ==
    { <<"a">>, <<>>, <<" ">>, <<"1">>, <<"x","z">> }

WrongOnlyInputs(st) ==
    { <<WrongLetters[i]>> :
        i \in { k \in 1..NumWrongKeys :
                  k <= Cardinality(st.guessed_letters) + 1 } }

SaverInputs == { <<"c">>, <<"x">>, SaveWord }

Players == {"letters", "sloppy", "wrong_only", "saver", "adder"}

\* the player who types letters may also type the word of the round
Inputs(p, st) ==
    CASE p = "letters" -> LetterInputs \cup {st.word}
      [] p = "sloppy"  -> SloppyInputs
      [] p = "saver"   -> SaverInputs
      [] p = "adder"   -> {st.word}
      [] p = "namer"   -> {SaveWord}
      [] OTHER         -> WrongOnlyInputs(st)

\* the save file that is there when a session starts at the load prompt was
\* written under this name, and the players of rounds save under it
OldName == <<"o","l","d">>

\* the characters the player who tries names types
NameChars == {"a", "Z", "7", " ", "\t", "\f", ".", "?", "_", "/"}

NameEndings ==
    { <<>>, <<".","s","a","v","e">>, <<".","t","x","t">>,
      <<".","S","A","V","E">> }

\* what is typed at the save prompt: the other players type one name; the
\* player who tries names types up to MaxNameLen characters and an ending,
\* or the name "my save?.txt"
Filenames(p) ==
    IF p # "namer" THEN {OldName}
    ELSE { stem \o ending :
             stem \in UNION {[1..n -> NameChars] : n \in 0..MaxNameLen},
             ending \in NameEndings }
         \cup { <<"m","y"," ","s","a","v","e","?",".","t","x","t">> }

\* the time a turn may take, in tenths of a second: under a second, or one
\* of the two delays; the player of wrong letters is either quick or late,
\* and so is the player of invalid lines, whose clock is set back while the
\* quick turns last; the player who saves is quick or slow, the one who
\* adds words quick
Delays(p) ==
    CASE p = "wrong_only" -> {9, MaxDelay}
      [] p = "sloppy"     -> {0 - BackDelay, MaxDelay}
      [] p = "saver"      -> {9, MidDelay}
      [] p = "adder"      -> {9}
      [] OTHER            -> {9, MidDelay, MaxDelay}

\* what becomes of the file when save_game_state is called: it is written;
\* it cannot be opened; it is opened, which makes or empties it, and the
\* writing fails, which leaves in it the characters that were written
\* before
SaveOutcomes == {"written", "not_opened", "not_written"}

\* what a write of text that fails may leave behind: the first characters
\* of text, none or some, not all
partly_written(text) ==
    { SubSeq(text, 1, k) :
        k \in { n \in 0..MaxPartial : n < Len(text) } }

\* save files found in the directory when the session starts: one in the
\* four-line layout load_game_state reads (word, letters, score, time) whose
\* lines end with "\r\n" or "\r", the last number after a form feed; one as
\* save_game_state writes it; one whose last line is no number; an empty one
ExistingSaves ==
    { <<"c","a","t","\r","\n", "c",",","a","\r", "1","0","\r",
        "\f","3","0","\r">>,
      <<"b","a","t"," ","\n", "x","\n", "3","0","\n">>,
      <<"c","a","t","\n", "c","\n", "9","0","\n", "s","o","o","n","\n">>,
      <<>> }

\* what the player types at a y/n prompt
Answers == {<<"y">>, <<"n">>, <<" ","Y">>, <<"q">>}

----------------------------------------------------------------------------
(* State: state is the dictionary of the round, pc the place the session is
   at, status the way the round has ended if it has, out the messages the
   last iteration of game_loop printed about the guess, hints the letters
   revealed as hints in the round, savedState the state that was last
   handed to save_game_state (<<>> when none was), player the keyboard and
   the pace the inputs are drawn from, origin whether the state of the round
   came from new_game or from a save file, save_files the names of the save
   files in the directory and saved their texts, in the same order, names
   the name typed at the save prompt and the names of the files
   load_game_state opened when given that name and when given the name
   listed in the directory, word_files custom_words.csv and the three
   <difficulty>_words.csv (see WordFile; <<>> for a file that does not
   exist), cut_rows the number of writes to custom_words.csv that have
   failed partway. *)

TypeOK ==
    /\ pc \in {"game_loop", "ask_continue", "hangman", "main", "add_words",
              "exit", "crashed"}
    /\ status \in {"NoRound", "InProgress", "Won", "LostTime", "LostScore",
                  "SavedExit"}
    /\ origin \in {"new", "loaded"}
    /\ state.hint_used \in BOOLEAN
    /\ state.score \in Int
    /\ state.time_left \in Int
    /\ state.incorrect_guesses \in Int
    /\ player \in Players \cup {"namer"}
    /\ Len(saved) <= 1
    /\ Len(save_files) = Len(saved)
    /\ Len(savedState) <= 1

\* the word files of the sessions in which rounds are played, but for
\* custom_words.csv: medium_words.csv and hard_words.csv are missing
WordFilesWith(custom) ==
    [custom |-> custom,
     easy   |-> WordFile(DifficultyWordList("easy"), FALSE),
     medium |-> <<>>,
     hard   |-> <<>>]

InitWordFiles == word_files = WordFilesWith(WordFile(CustomWordList, FALSE))

\* a round is entered with a fresh state on one of the words, no save file
\* existing yet
InitRound ==
    /\ \E w \in Words : state = fresh_state(w)
    /\ pc = "game_loop"
    /\ status = "InProgress"
    /\ saved = <<>>
    /\ save_files = <<>>
    /\ player \in Players
    /\ InitWordFiles

\* hangman is entered with one save file in the directory; the session is
\* played by the player who types letters or by the one who saves
InitLoadPrompt ==
    /\ state = create_game_state(<<>>, {}, MAX_SCORE, INITIAL_TIME)
    /\ pc = "hangman"
    /\ status = "NoRound"
    /\ \E text \in ExistingSaves : saved = <<text>>
    /\ save_files = <<save_filename(OldName)>>
    /\ player \in {"letters", "saver"}
    /\ InitWordFiles

\* the program is started, line 341: the menu is showing, there is no save
\* file, and custom_words.csv is missing, or has its two rows with or
\* without the last newline; the session is played by the player who adds
\* words
InitMenu ==
    /\ state = create_game_state(<<>>, {}, MAX_SCORE, INITIAL_TIME)
    /\ pc = "main"
    /\ status = "NoRound"
    /\ saved = <<>>
    /\ save_files = <<>>
    /\ player = "adder"
    /\ \E custom \in MenuCustomFiles : word_files = WordFilesWith(custom)

InitRest ==
    /\ cut_rows = 0
    /\ out = <<>>
    /\ hints = <<>>
    /\ savedState = <<>>
    /\ origin = "new"
    /\ names = [typed |-> <<>>, typed_opens |-> <<>>, listed_opens |-> <<>>]

Init ==
    /\ InitRound \/ InitLoadPrompt \/ InitMenu
    /\ InitRest

\* hangman is entered with some content of the word files, and no save file
InitSelect ==
    /\ state = create_game_state(<<>>, {}, MAX_SCORE, INITIAL_TIME)
    /\ pc = "hangman"
    /\ status = "NoRound"
    /\ saved = <<>>
    /\ save_files = <<>>
    /\ player = "letters"
    /\ InitRest
    /\ \E c \in CustomFiles, f \in DifficultyFiles :
           word_files = [custom |-> c, easy |-> f, medium |-> f, hard |-> f]

\* a round is entered by the player who saves at once, under some name
InitNames ==
    /\ state = fresh_state(Cat)
    /\ pc = "game_loop"
    /\ status = "InProgress"
    /\ saved = <<>>
    /\ save_files = <<>>
    /\ player = "namer"
    /\ InitRest
    /\ InitWordFiles

\* line 113: the text of the file of that name, if there is one
open_file(filename) ==
    IF \E i \in 1..Len(save_files) : save_files[i] = filename
    THEN <<saved[CHOOSE i \in 1..Len(save_files) : save_files[i] = filename]>>
    ELSE <<>>

\* s with x put in after its first n elements
InsertAt(s, n, x) == SubSeq(s, 1, n) \o <<x>> \o SubSeq(s, n + 1, Len(s))

\* line 98, open(filename, "w"), and what is written before the file is
\* closed: the file of that name holds text, whether it was there or not;
\* a new file is listed by os.listdir() at a place of the system's choosing
write_file(filename, text) ==
    IF \E i \in 1..Len(save_files) : save_files[i] = filename
    THEN /\ saved' = [i \in 1..Len(saved) |->
                         IF save_files[i] = filename THEN text ELSE saved[i]]
         /\ UNCHANGED save_files
    ELSE \E n \in 0..Len(save_files) :
             /\ saved' = InsertAt(saved, n, text)
             /\ save_files' = InsertAt(save_files, n, filename)

----------------------------------------------------------------------------
(* game_loop: one iteration, lines 153-212 *)

EndRound(st, how, msgs) ==
    /\ state' = st
    /\ status' = how
    /\ pc' = "ask_continue"
    /\ out' = msgs
    /\ UNCHANGED <<hints, saved, savedState, player, origin,
                   save_files, names,
                   word_files, cut_rows>>

\* the iteration on the guess read by line 160 after a delay of tenths
LoopBody(guess, tenths) ==
    /\ pc = "game_loop"
    /\ IF is_save(guess)
       THEN \* lines 163-167: the state is written as it is under the name
            \* made of the stripped line typed, game_loop returns False and
            \* hangman returns to the main menu
            /\ pc' = "main"
            /\ status' = "SavedExit"
            /\ UNCHANGED <<state, hints, player, origin, word_files, cut_rows>>
            /\ savedState' = <<state>>
            /\ \E raw \in Filenames(player), outcome \in SaveOutcomes :
                   LET filename == save_filename(strip(raw)) IN
                   /\ names' = [names EXCEPT !.typed = <<strip(raw)>>]
                   /\ CASE outcome = "written" ->
                             /\ out' = <<"saved_as", "saved">>
                             /\ \E order \in
                                    IterationOrders(state.guessed_letters) :
                                    write_file(filename,
                                               save_text(state, order))
                        [] outcome = "not_written" ->
                             \* lines 104-105, a write failed: the file is
                             \* there, with the start of the text or empty
                             /\ out' = <<"error_saving", "saved">>
                             /\ \E order \in
                                    IterationOrders(state.guessed_letters) :
                                  \E part \in partly_written(
                                                save_text(state, order)) :
                                      write_file(filename, part)
                        [] OTHER ->
                             \* lines 104-105, open() failed
                             /\ out' = <<"error_saving", "saved">>
                             /\ UNCHANGED <<saved, save_files>>
       ELSE LET t == update_time(state, tenths) IN
            IF ~time_available(t)
            THEN EndRound(t, "LostTime", <<"time_up">>)
            ELSE IF guess = t.word
            THEN EndRound(t, "Won", <<"won">>)
            ELSE IF is_repeat(t, guess)
            THEN /\ state' = t
                 /\ out' = <<"repeat">>
                 /\ UNCHANGED <<pc, status, hints, saved, savedState,
                                player, origin, save_files, names,
                                word_files, cut_rows>>
            ELSE LET u   == apply_guess(t, guess)
                     msg == guess_message(t, guess)
                 IN  IF word_covered(u)
                     THEN EndRound(u, "Won", <<msg, "won">>)
                     ELSE IF score_exhausted(u)
                     THEN EndRound(u, "LostScore", <<msg, "game_over">>)
                     ELSE IF hint_due(u) /\ missing(u) # {}
                     THEN /\ state' = [u EXCEPT !.hint_used = TRUE]
                          /\ \E h \in missing(u) : hints' = Append(hints, h)
                          /\ out' = <<msg, "hint">>
                          /\ UNCHANGED <<pc, status, saved, savedState,
                                         player, origin,
                                         save_files, names,
                                         word_files, cut_rows>>
                     ELSE /\ state' = u
                          /\ out' = <<msg>>
                          /\ UNCHANGED <<pc, status, hints, saved,
                                         savedState, player, origin,
                                         save_files, names,
                                         word_files, cut_rows>>

\* line 160: the line typed is stripped and put in lower case
GameLoop(raw, tenths) == LoopBody(lower(strip(raw)), tenths)

\* line 218: the validator of the y/n prompt
yes_or_no(response) == response \in {<<"y">>, <<"n">>}

wants_another_mut(response) == response = <<"n">>
\* line 222: the value ask_continue returns
wants_another(response) == response = <<"y">>

\* ask_continue, lines 214-222, and the use hangman makes of its result at
\* lines 281-283
AskContinue(raw) ==
    /\ pc = "ask_continue"
    /\ LET response == lower(strip(raw)) IN
       IF ~yes_or_no(response)
       THEN UNCHANGED pc
       ELSE pc' = IF wants_another(response) THEN "hangman" ELSE "main"
    /\ UNCHANGED <<state, status, out, hints, saved, savedState,
                   player, origin, save_files, names,
                   word_files, cut_rows>>

----------------------------------------------------------------------------
(* new_game and hangman *)

\* load_word_list, lines 71-85: no word when the file is missing; else the
\* first cell, in lower case, of every row whose first cell is made of
\* letters once stripped
load_word_list(file) ==
    IF file = <<>> THEN <<>>
    ELSE LET kept == SelectSeq(file[1].rows,
                               LAMBDA row : isalpha(strip(row)))
         IN  [i \in 1..Len(kept) |-> lower(kept[i])]

word_pool_mut(d) ==
    SelectSeq(load_word_list(word_files.custom)
                \o load_word_list(word_files[d]),
              LAMBDA w : /\ DIFFICULTY_PARAMS[d][1] <= Len(w)
                         /\ Len(w) < DIFFICULTY_PARAMS[d][2])
\* lines 138-144: the words of the two lists whose length is in the range
word_pool(d) ==
    SelectSeq(load_word_list(word_files.custom)
                \o load_word_list(word_files[d]),
              LAMBDA w : /\ DIFFICULTY_PARAMS[d][1] <= Len(w)
                         /\ Len(w) <= DIFFICULTY_PARAMS[d][2])

\* lines 146-150: the states new_game may return; none when the pool is empty
new_game(d) == {fresh_state(w) : w \in Range(word_pool(d))}

\* line 281: game_loop is entered; msgs are the messages of a load that
\* came before
StartRound(st, from, msgs) ==
    /\ state' = st
    /\ status' = "InProgress"
    /\ hints' = <<>>
    /\ pc' = "game_loop"
    /\ out' = msgs
    /\ origin' = from

\* lines 263, 278 and 283: hangman returns
ReturnToMenu(msgs) ==
    /\ pc' = "main"
    /\ out' = IF msgs = <<>> THEN out ELSE msgs
    /\ UNCHANGED <<state, status, hints, origin>>

NewGameThenPlay_mut(d, msgs) == ReturnToMenu(msgs)
\* the new game of lines 271 and 274, followed by lines 276-281
NewGameThenPlay(d, msgs) ==
    IF new_game(d) = {}
    THEN ReturnToMenu(IF msgs = <<>> THEN msgs
                      ELSE msgs \o <<"no_words">>)
    ELSE \E st \in new_game(d) : StartRound(st, "new", msgs)

\* line 268: the chosen file is loaded; it may have become unreadable since
\* the directory was listed
load_chosen(choice, readable) ==
    load_game_state(IF readable
                    THEN open_file(load_filename(save_files[choice]))
                    ELSE <<>>)

\* one iteration of the loop of hangman, lines 239-283, up to the call of
\* game_loop; answer is the valid reply to "Load saved game?", d the
\* difficulty typed when new_game is called, choice the valid reply to
\* "Choose a save file" and readable whether the chosen file can be opened
Hangman(answer, d, choice, readable) ==
    /\ pc = "hangman"
    /\ IF answer = "y"
       THEN IF saved = <<>>
            THEN \* lines 244-247, then 254-263: only 0 is a valid choice
                 /\ choice = 0
                 /\ ReturnToMenu(<<>>)
                 /\ UNCHANGED names
            ELSE /\ choice \in 0..Len(saved)
                 /\ IF choice = 0
                    THEN ReturnToMenu(<<>>) /\ UNCHANGED names
                    ELSE LET ld == load_chosen(choice, readable) IN
                         /\ names' =
                              [names EXCEPT !.listed_opens =
                                  <<load_filename(save_files[choice])>>]
                         /\ IF ld # <<>>
                            THEN StartRound(ld[1], "loaded", <<"loading">>)
                            ELSE NewGameThenPlay(d,
                                   <<"loading", "error_loading",
                                     "starting_new">>)
       ELSE /\ choice = 0
            /\ NewGameThenPlay(d, <<>>)
            /\ UNCHANGED names
    /\ UNCHANGED <<saved, savedState, player, save_files, word_files, cut_rows>>

\* load_game_state called with the name that was typed at the save prompt:
\* the name of the file it opens, lines 107-113
LookUp ==
    /\ pc = "main"
    /\ names.typed # <<>>
    /\ names.typed_opens = <<>>
    /\ names' = [names EXCEPT !.typed_opens = <<load_filename(names.typed[1])>>]
    /\ UNCHANGED <<state, pc, status, out, hints, saved, savedState,
                   player, origin, save_files, word_files, cut_rows>>

----------------------------------------------------------------------------
(* main and add_custom_words: the menu, lines 318-338 and 286-316 *)

\* choice "1", lines 328-329: hangman is called
PlayGame ==
    /\ pc = "main"
    /\ pc' = "hangman"
    /\ UNCHANGED <<state, status, out, hints, saved, savedState,
                   player, origin, save_files, names, word_files, cut_rows>>

\* choice "2", lines 332-333, and lines 287-289: custom_words.csv is made,
\* empty, if it is missing; when it cannot be made the error is not caught
\* and the program ends
EnterAddWords(creatable) ==
    /\ pc = "main"
    /\ IF word_files.custom # <<>>
       THEN pc' = "add_words" /\ UNCHANGED word_files
       ELSE IF creatable
       THEN /\ pc' = "add_words"
            /\ word_files' = [word_files EXCEPT
                                 !.custom = WordFile(<<>>, FALSE)]
       ELSE pc' = "crashed" /\ UNCHANGED word_files
    /\ UNCHANGED <<state, status, out, hints, saved, savedState,
                   player, origin, save_files, names, cut_rows>>

\* line 292: the line typed is put in lower case and stripped
custom_word(raw) == strip(lower(raw))

\* lines 296-309: the word is made of letters, of 4 to 20 of them, and not
\* in the list
addable(file, word) ==
    /\ isalpha(word)
    /\ ~(Len(word) < MIN_CUSTOM_LEN \/ Len(word) > MAX_CUSTOM_LEN)
    /\ word \notin Range(load_word_list(file))

\* lines 311-312: characters are put at the end of the file, so they make
\* a row of their own unless the last row had no newline after it, which
\* they are joined to; ended tells whether the newline was written too
append_chars(file, chars, ended) ==
    LET rows == file[1].rows IN
    IF file[1].unterminated /\ rows # <<>>
    THEN WordFile([rows EXCEPT ![Len(rows)] = @ \o chars], ~ended)
    ELSE WordFile(Append(rows, chars), ~ended)

\* lines 311-312: the word and "\r\n" are written
append_row(file, word) == append_chars(file, word, TRUE)

\* what a write of the row that fails may leave of the word at the end of
\* the file: nothing, which leaves the file as it was, or its first
\* characters, without a newline after them
partly_added(file, word) ==
    { file }
    \cup { append_chars(file, SubSeq(word, 1, k), FALSE) :
             k \in { n \in 1..MaxPartial : n <= Len(word) } }

\* the files custom_words.csv may be after one line typed at the prompt,
\* lines 291-315; written tells whether the writing of the row succeeds
add_custom_words(file, raw, written) ==
    IF ~addable(file, custom_word(raw)) THEN { file }
    ELSE IF written THEN { append_row(file, custom_word(raw)) }
    ELSE partly_added(file, custom_word(raw))

\* one iteration of the loop of add_custom_words, lines 291-315: "done"
\* returns to the menu
AddCustomWords(raw, written) ==
    /\ pc = "add_words"
    /\ IF custom_word(raw) = <<"d","o","n","e">>
       THEN pc' = "main" /\ UNCHANGED <<word_files, cut_rows>>
       ELSE /\ UNCHANGED pc
            /\ \E file \in add_custom_words(word_files.custom, raw,
                                              written) :
                   /\ word_files' = [word_files EXCEPT !.custom = file]
                   /\ cut_rows' = IF written \/ file = word_files.custom
                                  THEN cut_rows ELSE cut_rows + 1
                   /\ cut_rows' <= MaxCutRows
    /\ UNCHANGED <<state, status, out, hints, saved, savedState,
                   player, origin, save_files, names>>

\* choice "3", lines 336-338: the program ends
Quit ==
    /\ pc = "main"
    /\ pc' = "exit"
    /\ UNCHANGED <<state, status, out, hints, saved, savedState,
                   player, origin, save_files, names, word_files, cut_rows>>

----------------------------------------------------------------------------

Turn == \E raw \in Inputs(player, state), tenths \in Delays(player) :
            GameLoop(raw, tenths)

Continue == \E raw \in Answers : AskContinue(raw)

Play == \E answer \in {"y", "n"}, d \in Difficulties, choice \in 0..1,
            readable \in BOOLEAN :
            Hangman(answer, d, choice, readable)

AddWords ==
    \/ \E creatable \in BOOLEAN : EnterAddWords(creatable)
    \/ \E raw \in AddInputs(player), written \in BOOLEAN :
           AddCustomWords(raw, written)

Menu == PlayGame \/ AddWords \/ Quit

Next == Turn \/ Continue \/ Play \/ Menu

Spec == Init /\ [][Next]_vars

\* the sessions in which names are tried: a save under some name, then the
\* file is chosen at the load prompt, with the difficulty that has no word
\* typed when the load has failed, and looked up by the name typed
PlayHard == \E choice \in 0..1, readable \in BOOLEAN :
                Hangman("y", "hard", choice, readable)

NextNames == Turn \/ PlayGame \/ PlayHard \/ LookUp

SpecNames == InitNames /\ [][NextNames]_vars

\* the sessions in which word selection is examined: the load prompt is
\* answered "n" and a difficulty is chosen
NextSelect == \E d \in Difficulties : Hangman("n", d, 0, TRUE)

SpecSelect == InitSelect /\ [][NextSelect]_vars

----------------------------------------------------------------------------
(* Vocabulary of the properties *)

\* a guess that is a single alphabetic letter
SingleLetter(g) == Len(g) = 1 /\ g[1] \in Range(LowerCase)

\* the distinct wrong letters guessed so far in the round
WrongGuessed(st) ==
    {g \in st.guessed_letters : SingleLetter(g) /\ g[1] \notin Range(st.word)}

\* neither "save", nor the word, nor a single letter
InvalidInput(g, word) == g # SaveWord /\ g # word /\ ~SingleLetter(g)

\* whole seconds of a delay given in tenths, the fraction dropped
Seconds(tenths) ==
    IF tenths < 0 THEN 0 - ((0 - tenths) \div 10) ELSE tenths \div 10

\* the fields a guess may change, time aside
Scoring(st) ==
    <<st.guessed_letters, st.score, st.incorrect_guesses, st.hint_used>>

\* the guesses a player's lines stand for
Guesses == {lower(strip(raw)) : raw \in Inputs(player, state)}

\* only single letters have been guessed in the round
OnlyLetters(st) == \A g \in st.guessed_letters : SingleLetter(g)

----------------------------------------------------------------------------
(* Score and counter *)

\* C1: in a round in which only letters were guessed, the score is 100 minus
\* 10 times the number of distinct wrong letters guessed so far (so "cat"
\* with x, c, a, t is won at 90).
C1_ScoreCountsWrongLetters ==
    OnlyLetters(state) =>
        state.score = 100 - 10 * Cardinality(WrongGuessed(state))

\* C2: in a round in which only letters were guessed, incorrect_guesses is
\* the number of distinct wrong letters guessed so far, hence never negative.
C2_CounterCountsWrongLetters ==
    OnlyLetters(state) =>
        /\ state.incorrect_guesses >= 0
        /\ state.incorrect_guesses = Cardinality(WrongGuessed(state))

\* C3: a turn on an invalid input that does not run out of time leaves the
\* guessed letters, the score, the counter and the hint flag as they were and
\* prompts again.
C3_InvalidInputRejected ==
    [][pc = "game_loop" =>
       \A g \in Guesses, tenths \in Delays(player) :
         ( /\ InvalidInput(g, state.word)
           /\ state.time_left - Seconds(tenths) > 0
           /\ LoopBody(g, tenths) )
         => ( /\ Scoring(state') = Scoring(state)
              /\ pc' = "game_loop" )]_vars

\* C4: a turn on a single letter that is already among the guessed letters
\* changes nothing but the time left, which it lowers by the whole seconds
\* elapsed.
C4_RepeatGuessIsNoOp ==
    [][pc = "game_loop" =>
       \A g \in state.guessed_letters, tenths \in Delays(player) :
         ( /\ SingleLetter(g)
           /\ LoopBody(g, tenths) )
         => ( /\ Scoring(state') = Scoring(state)
              /\ state'.time_left = state.time_left - Seconds(tenths)
              /\ hints' = hints )]_vars

\* a wrong letter was guessed, at a cost of 10, and typed again a while later
C4_Witness ==
    /\ out = <<"repeat">>
    /\ state.guessed_letters = {<<"x">>}
    /\ state.score = 90
    /\ state.time_left < 30
    /\ pc = "game_loop"

----------------------------------------------------------------------------
(* Time and saving *)

\* C5: a turn, on any input other than "save", whose whole seconds elapsed
\* are at least the time left ends the round as LostTime with the guessed
\* letters, the score and the counter as they were; the word itself does not
\* win then.
C5_TimeUpBeforeGuess ==
    [][pc = "game_loop" =>
       \A tenths \in Delays(player) :
         Seconds(tenths) >= state.time_left =>
           \A g \in Guesses :
             (g # SaveWord /\ LoopBody(g, tenths))
             => ( /\ status' = "LostTime"
                  /\ pc' = "ask_continue"
                  /\ Scoring(state') = Scoring(state) )]_vars

\* "bat" at 30 seconds, first guess after 31 seconds: lost on time, nothing
\* guessed
C5_Witness ==
    /\ status = "LostTime"
    /\ state.word = Bat
    /\ state.time_left = 30 - Seconds(MaxDelay)
    /\ state.guessed_letters = {}
    /\ state.score = 100
    /\ pc = "ask_continue"

\* C6: "save" ends the round as SavedExit whatever time has elapsed; the
\* state, its time left included, is as it was, and it is that state that is
\* written when the file can be written.
C6_SaveConsumesNoTurn ==
    [][pc = "game_loop" =>
       \A tenths \in Delays(player) :
         LoopBody(SaveWord, tenths)
         => ( /\ status' = "SavedExit"
              /\ pc' # "game_loop"
              /\ state' = state
              /\ savedState' = <<state>>
              /\ out'[1] = "saved_as" =>
                   \E order \in IterationOrders(state.guessed_letters),
                      i \in 1..Len(saved') :
                       /\ save_files'[i] = save_filename(names'.typed[1])
                       /\ saved'[i] = save_text(state, order) )]_vars

\* saved in the middle of a round, after a slow turn
C6_Witness ==
    /\ status = "SavedExit"
    /\ out = <<"saved_as", "saved">>
    /\ savedState = <<state>>
    /\ saved # <<>>
    /\ state.guessed_letters # {}
    /\ state.time_left < 30

\* the file holds the text of the state that was last saved
HoldsSaved(text) ==
    /\ savedState # <<>>
    /\ \E order \in IterationOrders(savedState[1].guessed_letters) :
           text = save_text(savedState[1], order)

\* C7: loading the text that was saved succeeds: the round that is entered
\* has the word, the guessed letters as a set and the time left of the state
\* that was saved.
C7_SaveLoadRoundTrip ==
    [][ \A d \in Difficulties :
          ( /\ pc = "hangman"
            /\ saved # <<>>
            /\ HoldsSaved(saved[1])
            /\ Hangman("y", d, 1, TRUE) )
          => /\ pc' = "game_loop"
             /\ out' = <<"loading">>
             /\ state'.word = savedState[1].word
             /\ state'.guessed_letters = savedState[1].guessed_letters
             /\ state'.time_left = savedState[1].time_left ]_vars

----------------------------------------------------------------------------
(* Hints *)

\* C8: at most one hint is given in a round; once one is given hint_used is
\* true, and it stays true, with no further hint, until the round is over
\* and another is started.
C8_HintAtMostOnce ==
    [][ /\ Len(hints') <= 1
        /\ (Len(hints') = 1 => state'.hint_used)
        /\ (state.hint_used /\ pc # "hangman")
             => (state'.hint_used /\ hints' = hints) ]_vars

\* the round went on after its hint
C8_Witness ==
    /\ Len(hints) = 1
    /\ state.hint_used
    /\ pc = "game_loop"
    /\ out \in {<<"invalid">>, <<"wrong">>}

\* C9: when a hint has been given in a round in which only letters were
\* guessed, at least 3 distinct wrong letters have been guessed in it.
C9_HintAfterThreeWrong ==
    (OnlyLetters(state) /\ Len(hints) > 0) =>
        Cardinality(WrongGuessed(state)) >= 3

----------------------------------------------------------------------------
(* Score exhaustion *)

\* C10: in a round on a fresh state in which only wrong letters were guessed
\* and no whole second has elapsed, the round is lost on score exactly when
\* 10 letters have been guessed, and there is no 11th.
C10_ScoreExhaustion ==
    ( /\ origin = "new"
      /\ OnlyLetters(state)
      /\ WrongGuessed(state) = state.guessed_letters
      /\ state.time_left = 30 )
    => LET n == Cardinality(state.guessed_letters) IN
         /\ n <= 10
         /\ n = 10 => (status = "LostScore" /\ pc # "game_loop")
         /\ n < 10 => status # "LostScore"

\* ten wrong letters, no time elapsed: score 0, lost
C10_Witness ==
    /\ status = "LostScore"
    /\ pc = "ask_continue"
    /\ Cardinality(state.guessed_letters) = 10
    /\ WrongGuessed(state) = state.guessed_letters
    /\ state.time_left = 30
    /\ state.score = 0

----------------------------------------------------------------------------
(* The guessed letters *)

\* C17: every element of the guessed letters is a string of exactly one
\* character, whatever was typed at the prompt.
C17_GuessedAreSingleCharacters ==
    \A g \in state.guessed_letters : Len(g) = 1

----------------------------------------------------------------------------
(* Starting a round from the load prompt *)

\* C19: when the player answers "y" to the load prompt and there is no save
\* file, the new game that is announced is played: if word selection yields
\* a word, game_loop is entered with a fresh state on one of the words.
C19_NoSavesNewGamePlayed ==
    [][ \A d \in Difficulties :
          ( /\ pc = "hangman"
            /\ saved = <<>>
            /\ new_game(d) # {}
            /\ Hangman("y", d, 0, TRUE) )
          => ( /\ pc' = "game_loop"
               /\ origin' = "new"
               /\ state' \in new_game(d) ) ]_vars

----------------------------------------------------------------------------
(* Loading a save *)

\* C13: loading a save fails exactly when its text has fewer than 3 lines or
\* its third line, the time, is not an integer; every text of three lines
\* with an integer time loads into a game state.
C13_LoadFailsOnlyOnShortOrBadTime ==
    [][ \A d \in Difficulties :
          ( /\ pc = "hangman"
            /\ saved # <<>>
            /\ Hangman("y", d, 1, TRUE) )
          => LET lines == file_lines(saved[1]) IN
             (out' # <<"loading">>)
                 <=> (Len(lines) < 3 \/ parse_int(lines[3]) = <<>>) ]_vars

----------------------------------------------------------------------------
(* The end of a round *)

Terminal == {"Won", "LostTime", "LostScore", "SavedExit"}

\* C18 as stated: whenever a round reaches a terminal state, SavedExit
\* included, the player is asked whether to play again, and the answer is
\* obeyed: "y" goes on to another round, "n" returns to the menu, anything
\* else asks again and changes nothing.
C18_AskedAfterEveryTerminal ==
    [][ /\ (status = "InProgress" /\ status' \in Terminal)
            => pc' = "ask_continue"
        /\ \A raw \in Answers :
             (pc = "ask_continue" /\ AskContinue(raw)) =>
                 IF raw \in {<<"y">>, <<" ", "Y">>} THEN pc' = "hangman"
                 ELSE IF raw = <<"n">> THEN pc' = "main"
                 ELSE UNCHANGED vars ]_vars

\* C18, amended: the player is asked after Won, LostTime and LostScore; a
\* round ended by "save" returns to the menu without a question. At the
\* question "y" (in any case, blanks around it ignored) goes on to the next
\* iteration of hangman, "n" returns to the menu, anything else asks again
\* and changes nothing; no answer touches the game state.
C18_AskedUnlessSaved ==
    [][ /\ (status = "InProgress" /\ status' \in Terminal \ {"SavedExit"})
            => pc' = "ask_continue"
        /\ (status = "InProgress" /\ status' = "SavedExit")
            => pc' = "main"
        /\ \A raw \in Answers :
             (pc = "ask_continue" /\ AskContinue(raw)) =>
                 /\ IF raw \in {<<"y">>, <<" ", "Y">>} THEN pc' = "hangman"
                    ELSE IF raw = <<"n">> THEN pc' = "main"
                    ELSE UNCHANGED vars
                 /\ state' = state /\ status' = status ]_vars

\* a lost round was followed by the question, "y" was answered and the load
\* prompt of the next iteration is showing
C18_Witness ==
    /\ pc = "hangman"
    /\ status = "LostScore"
    /\ out[Len(out)] = "game_over"

----------------------------------------------------------------------------
(* Score and time at the prompt *)

\* C16: in a round started from a fresh state, whenever the player is
\* prompted for a guess the score and the time left are both strictly
\* positive.
C16_PositiveAtPrompt ==
    (origin = "new" /\ pc = "game_loop" /\ status = "InProgress") =>
        (state.score > 0 /\ state.time_left > 0)

\* the prompt is showing with the last ten points left
C16_Witness ==
    /\ origin = "new"
    /\ pc = "game_loop"
    /\ status = "InProgress"
    /\ state.score = 10
    /\ Cardinality(state.guessed_letters) = 9

----------------------------------------------------------------------------
(* The order of the terminal checks *)

\* every letter of the word of st is among its guessed letters
Covered(st) ==
    \A i \in 1..Len(st.word) : <<st.word[i]>> \in st.guessed_letters

\* C15: after a guess has changed the state, the round is Won if every
\* letter of the word is guessed, whatever the score, even when it is 0 or
\* less; it is LostScore exactly when the word is not covered and the score
\* is 0 or less; otherwise it goes on.
C15_WonBeforeLostScore ==
    [][ ( /\ pc = "game_loop"
          /\ status' # "SavedExit"
          /\ \/ state'.guessed_letters # state.guessed_letters
             \/ state'.score # state.score )
        => /\ Covered(state') => (status' = "Won" /\ pc' = "ask_continue")
           /\ (~Covered(state') /\ state'.score <= 0)
                => (status' = "LostScore" /\ pc' = "ask_continue")
           /\ (~Covered(state') /\ state'.score > 0)
                => (status' = "InProgress" /\ pc' = "game_loop") ]_vars

\* the last letter of the word was guessed with the last ten points
C15_Witness ==
    /\ status = "Won"
    /\ pc = "ask_continue"
    /\ state.score <= 0
    /\ Covered(state)
    /\ out = <<"invalid", "won">>

----------------------------------------------------------------------------
(* A load that fails *)

\* C14: when the load of the chosen save file fails, because the file is
\* missing, unreadable or corrupt, the failure is reported and a new round
\* is started through word selection and played, on a fresh state; the
\* session returns to the menu only if word selection yields no word.
C14_FailedLoadFallsBack ==
    [][ \A d \in Difficulties, choice \in 1..Len(saved),
           readable \in BOOLEAN :
          ( /\ pc = "hangman"
            /\ load_chosen(choice, readable) = <<>>
            /\ Hangman("y", d, choice, readable) )
          => /\ SubSeq(out', 1, 3)
                  = <<"loading", "error_loading", "starting_new">>
             /\ IF new_game(d) = {}
                THEN pc' = "main" /\ state' = state
                ELSE /\ pc' = "game_loop"
                     /\ status' = "InProgress"
                     /\ origin' = "new"
                     /\ state' \in new_game(d)
                     /\ state'.guessed_letters = {}
                     /\ state'.score = MAX_SCORE
                     /\ state'.time_left = INITIAL_TIME ]_vars

\* a round is being played that was started because a load had failed
C14_Witness ==
    /\ pc = "game_loop"
    /\ origin = "new"
    /\ saved # <<>>
    /\ load_game_state(saved) = <<>>
    /\ out = <<"loading", "error_loading", "starting_new">>
    /\ state.guessed_letters = {}

----------------------------------------------------------------------------
(* File names *)

\* the name with every character other than the ones kept replaced by "_",
\* and ".save" appended unless it ends with it already
Replaced(name, kept) ==
    LET r == [i \in 1..Len(name) |->
                 IF name[i] \in kept THEN name[i] ELSE "_"]
    IN  IF /\ Len(r) >= 5
           /\ SubSeq(r, Len(r) - 4, Len(r)) = <<".","s","a","v","e">>
        THEN r
        ELSE r \o <<".","s","a","v","e">>

LettersAndDigits ==
    { "a","b","c","d","e","f","g","h","i","j","k","l","m",
      "n","o","p","q","r","s","t","u","v","w","x","y","z",
      "A","B","C","D","E","F","G","H","I","J","K","L","M",
      "N","O","P","Q","R","S","T","U","V","W","X","Y","Z",
      "0","1","2","3","4","5","6","7","8","9" }

\* C12 as stated: the file is written under the name typed with every
\* character outside [A-Za-z0-9 .] replaced by "_" and ".save" appended
\* unless it is there, and a load given the name typed opens that file.
C12_SameNameOnSaveAndLoad ==
    (names.typed # <<>> /\ save_files # <<>>) =>
        /\ save_files = <<Replaced(names.typed[1],
                                   LettersAndDigits \cup {" ", "."})>>
        /\ names.typed_opens # <<>> => names.typed_opens[1] = save_files[1]

\* C12, amended: the file is written under the name typed with every
\* character other than a letter, a digit, a whitespace character (a tab or
\* a form feed as well as a space) and "." replaced by "_", and ".save"
\* appended unless the result ends with it. A load replaces nothing: it
\* opens the name it is given with ".save" appended unless it ends with it,
\* which is the file written when it is given the name found in the
\* directory.
C12_NameWrittenAndNamesOpened ==
    (names.typed # <<>> /\ save_files # <<>>) =>
        /\ save_files = <<Replaced(names.typed[1],
                                   LettersAndDigits \cup WhiteSpace
                                     \cup {"."})>>
        /\ names.typed_opens # <<>> =>
             names.typed_opens[1]
               = Replaced(names.typed[1], Range(names.typed[1]))
        /\ names.listed_opens # <<>> => names.listed_opens[1] = save_files[1]

\* "my save?.txt" was written as "my save_.txt.save"; a load given
\* "my save?.txt" opened "my save?.txt.save", a load given the listed name
\* opened the file
C12_Witness ==
    /\ names.typed = << <<"m","y"," ","s","a","v","e","?",".","t","x","t">> >>
    /\ save_files = << <<"m","y"," ","s","a","v","e","_",".","t","x","t",
                         ".","s","a","v","e">> >>
    /\ names.typed_opens # <<>>
    /\ names.typed_opens # names.listed_opens
    /\ names.listed_opens = save_files

----------------------------------------------------------------------------
(* Word selection *)

\* the words of the custom list and of the list of difficulty d whose length
\* is within the range of d, ends included
Eligible(d) ==
    { w \in Range(load_word_list(word_files.custom))
              \cup Range(load_word_list(word_files[d])) :
        /\ Len(w) >= DIFFICULTY_PARAMS[d][1]
        /\ Len(w) <= DIFFICULTY_PARAMS[d][2] }

\* C11: whatever the word files hold and whatever difficulty is chosen, the
\* round that is started is on a word from the custom list or the list of the
\* difficulty whose length is in the inclusive range of the difficulty, with
\* a fresh state; no round is started exactly when no listed word has such a
\* length.
C11_WordSelection ==
    [][ \A d \in Difficulties :
          (pc = "hangman" /\ Hangman("n", d, 0, TRUE)) =>
              IF Eligible(d) = {}
              THEN /\ pc' = "main"
                   /\ status' = status
                   /\ state' = state
              ELSE /\ pc' = "game_loop"
                   /\ status' = "InProgress"
                   /\ state'.word \in Eligible(d)
                   /\ state' = create_game_state(state'.word, {}, MAX_SCORE,
                                                 INITIAL_TIME) ]_vars

\* a round was started on a word of 20 letters, the longest a hard round may
\* have, from files that also hold a word of 21
C11_Witness ==
    /\ pc = "game_loop"
    /\ status = "InProgress"
    /\ Len(state.word) = 20
    /\ word_files.custom # <<>>
    /\ \E i \in 1..Len(word_files.custom[1].rows) :
           Len(word_files.custom[1].rows[i]) = 21

====
